---- MODULE Spec2Model ----
(***************************************************************************)
(* A model of indivo/lib/rdf.py: PatientGraph, the builder of a patient's  *)
(* RDF graph.  The graph is the set of statements (s, p, o) held by the    *)
(* rdflib graph self.g; every method of the builder is an operator that     *)
(* takes the builder ("self") and the call's arguments and yields the      *)
(* builder after the call, the value returned and the exception raised.    *)
(*                                                                         *)
(* Python values and rdflib terms are triples <<kind, text, number>>:      *)
(*   <<"None","",0>>            None                                       *)
(*   <<"str",s,0>>              the string s                               *)
(*   <<"bool","",b>>            False (b = 0) and True (b = 1)             *)
(*   <<"BNode","",n>>           the n-th anonymous node made by BNode()    *)
(*   <<"URIRef",s,0>>           URIRef(s)                                  *)
(*   <<"Literal",s,0>>          Literal with lexical form s                *)
(* Domain records (medications, fills, problems) are TLA+ records whose    *)
(* fields are the attributes the code reads; "class" tells a record from   *)
(* None.  Graph.add stores the triple it is handed as it is, so a None     *)
(* handed to it becomes the subject or the object of a statement.          *)
(***************************************************************************)
EXTENDS Naturals, Sequences, FiniteSets, TLC

VARIABLES g, nb, patient, last, gPrev, calls, before

vars == <<g, nb, patient, last, gPrev, calls, before>>

----------------------------------------------------------------------------
(* Python values *)

PyNone == <<"None", "", 0>>
PyStr(s) == <<"str", s, 0>>
PyTrue == <<"bool", "", 1>>
PyFalse == <<"bool", "", 0>>
NoneObj == [class |-> "NoneType"]

(* bool(v): None, "", False are falsy; a BNode is a non-empty string *)
Truthy(v) ==
    CASE v[1] = "None" -> FALSE
      [] v[1] = "bool" -> v[3] = 1
      [] v[1] = "BNode" -> TRUE
      [] OTHER -> v[2] # ""

(* bool(o) of a model instance, a list or None: None and the empty list are falsy *)
TruthyObj(o) == IF o.class = "list" THEN Len(o.items) > 0 ELSE o.class # "NoneType"

(* hasattr(obj, attr): reading an attribute the object lacks raises AttributeError *)
hasattr(obj, attr) == attr \in DOMAIN obj

(* unicode(v), and what "%s" % v inserts *)
Str(v) ==
    CASE v[1] = "None" -> "None"
      [] v[1] = "bool" -> (IF v[3] = 1 THEN "True" ELSE "False")
      [] OTHER -> v[2]

(* template % v for a template that ends in %s; the argument is the text before %s *)
Fmt(template, v) == PyStr(template \o Str(v))

----------------------------------------------------------------------------
(* rdflib terms *)

BNode(n) == <<"BNode", "", n>>
URIRef(v) == <<"URIRef", Str(v), 0>>
Literal(v) == <<"Literal", Str(v), 0>>
Namespace(ns, name) == <<"URIRef", ns \o name, 0>>

RXN_URI == "http://purl.bioontology.org/ontology/RXNORM/"
SNOMED_URI == "http://purl.bioontology.org/ontology/SNOMEDCT/"
LOINC_URI == "http://purl.bioontology.org/ontology/LNC/"
MED_PROV_URI == "http://smartplatforms.org/terms/codes/MedicationProvenance#"

SP(name) == Namespace("http://smartplatforms.org/terms#", name)
SPCODE(name) == Namespace("http://smartplatforms.org/terms/codes/", name)
DCTERMS(name) == Namespace("http://purl.org/dc/terms/", name)
FOAF(name) == Namespace("http://xmlns.com/foaf/0.1/", name)
VCARD(name) == Namespace("http://www.w3.org/2006/vcard/ns#", name)
RDF_type == Namespace("http://www.w3.org/1999/02/22-rdf-syntax-ns#", "type")

----------------------------------------------------------------------------
(* The builder: self.g, the BNode() counter, self.patient *)

Builder(graph, n, p) == [g |-> graph, nb |-> n, patient |-> p]

(* the outcome of a call *)
Ret(self, value) == [self |-> self, ret |-> value, raised |-> ""]
Raise(self, exc) == [self |-> self, ret |-> PyNone, raised |-> exc]

(* F applied to the value of e: a local variable assigned once and read by what follows *)
Bind(e, F(_)) == CHOOSE y \in {F(x) : x \in {e}} : TRUE

(* Graph.set in place of Graph.add: the statements of the same subject and
   predicate are dropped before the new ones are stored *)
g_add_Set(self, stmts) ==
    [self EXCEPT !.g = {t \in @ : \A u \in stmts : ~(t[1] = u[1] /\ t[2] = u[2])}
                       \cup stmts]

(* self.g.add((s, p, o)) for every triple of stmts *)
g_add(self, stmts) == [self EXCEPT !.g = @ \cup stmts]

(* __init__ *)
PatientGraph ==
    LET p == BNode(0)
    IN  Builder({<<p, RDF_type, SP("MedicalRecord")>>}, 1, p)

(* codedValue returning None unless every argument is non-empty *)
codedValue_AllRequired(self, codeclass, uri, title, system, identifier) ==
    IF ~(Truthy(codeclass) /\ Truthy(uri) /\ Truthy(title) /\ Truthy(system)
            /\ Truthy(identifier))
    THEN Ret(self, PyNone)
    ELSE LET cvNode == BNode(self.nb)
             cNode == URIRef(uri)
         IN  Ret(g_add([self EXCEPT !.nb = @ + 1],
                       { <<cvNode, RDF_type, SP("CodedValue")>>,
                         <<cvNode, DCTERMS("title"), Literal(title)>>,
                         <<cvNode, SP("code"), cNode>>,
                         <<cNode, RDF_type, codeclass>>,
                         <<cNode, RDF_type, SP("Code")>>,
                         <<cNode, DCTERMS("title"), Literal(title)>>,
                         <<cNode, SP("system"), Literal(system)>>,
                         <<cNode, DCTERMS("identifier"), Literal(identifier)>> }),
                 cvNode)

(* codedValue attaching the edges of its non-empty arguments only *)
codedValue_OnlyTruthy(self, codeclass, uri, title, system, identifier) ==
    IF ~(Truthy(codeclass) \/ Truthy(uri) \/ Truthy(title) \/ Truthy(system)
            \/ Truthy(identifier))
    THEN Ret(self, PyNone)
    ELSE LET cvNode == BNode(self.nb)
             cNode == URIRef(uri)
         IN  Ret(g_add([self EXCEPT !.nb = @ + 1],
                       { <<cvNode, RDF_type, SP("CodedValue")>> }
                       \cup (IF Truthy(title)
                             THEN { <<cvNode, DCTERMS("title"), Literal(title)>>,
                                    <<cNode, DCTERMS("title"), Literal(title)>> }
                             ELSE {})
                       \cup (IF Truthy(uri) THEN { <<cvNode, SP("code"), cNode>> } ELSE {})
                       \cup (IF Truthy(codeclass) THEN { <<cNode, RDF_type, codeclass>> }
                             ELSE {})
                       \cup (IF Truthy(system)
                             THEN { <<cNode, SP("system"), Literal(system)>> } ELSE {})
                       \cup (IF Truthy(identifier)
                             THEN { <<cNode, DCTERMS("identifier"), Literal(identifier)>> }
                             ELSE {})),
                 cvNode)

(* codedValue *)
codedValue(self, codeclass, uri, title, system, identifier) ==
    IF ~(Truthy(codeclass) \/ Truthy(uri) \/ Truthy(title) \/ Truthy(system)
            \/ Truthy(identifier))
    THEN Ret(self, PyNone)
    ELSE LET cvNode == BNode(self.nb)
             cNode == URIRef(uri)
         IN  Ret(g_add([self EXCEPT !.nb = @ + 1],
                       { <<cvNode, RDF_type, SP("CodedValue")>>,
                         <<cvNode, DCTERMS("title"), Literal(title)>>,
                         <<cvNode, SP("code"), cNode>>,
                         <<cNode, RDF_type, codeclass>>,
                         <<cNode, RDF_type, SP("Code")>>,
                         <<cNode, DCTERMS("title"), Literal(title)>>,
                         <<cNode, SP("system"), Literal(system)>>,
                         <<cNode, DCTERMS("identifier"), Literal(identifier)>> }),
                 cvNode)

(* valueAndUnit returning None when either argument is empty *)
valueAndUnit_NeedsBoth(self, value, units) ==
    IF ~Truthy(value) \/ ~Truthy(units)
    THEN Ret(self, PyNone)
    ELSE LET vNode == BNode(self.nb)
         IN  Ret(g_add([self EXCEPT !.nb = @ + 1],
                       { <<vNode, RDF_type, SP("ValueAndUnit")>>,
                         <<vNode, SP("value"), Literal(value)>>,
                         <<vNode, SP("unit"), Literal(units)>> }),
                 vNode)

valueAndUnit(self, value, units) ==
    IF ~Truthy(value) /\ ~Truthy(units)
    THEN Ret(self, PyNone)
    ELSE LET vNode == BNode(self.nb)
         IN  Ret(g_add([self EXCEPT !.nb = @ + 1],
                       { <<vNode, RDF_type, SP("ValueAndUnit")>>,
                         <<vNode, SP("value"), Literal(value)>>,
                         <<vNode, SP("unit"), Literal(units)>> }),
                 vNode)

----------------------------------------------------------------------------
(* Composite builders over the attributes <prefix>_<suffix> of a record *)

RECURSIVE reduce_or(_)
(* reduce(lambda x, y: x or y, values) for a non-empty list of values *)
reduce_or(values) ==
    IF Len(values) = 1 THEN values[1]
    ELSE LET x == reduce_or(SubSeq(values, 1, Len(values) - 1))
             y == values[Len(values)]
         IN  IF Truthy(x) THEN x ELSE y

(* getattr(obj, "%s_%s" % (prefix, s)) *)
getattr(obj, prefix, s) == obj[prefix \o "_" \o s]

(* the dictionary returned without the test for all fields empty *)
obj_fields_by_name_NoCheck(obj, prefix, suffixes) ==
    [s \in {suffixes[i] : i \in 1..Len(suffixes)} |-> getattr(obj, prefix, s)]

(* the dictionary suffix -> attribute, or None if no attribute is truthy *)
obj_fields_by_name(obj, prefix, suffixes) ==
    LET ret == [s \in {suffixes[i] : i \in 1..Len(suffixes)} |-> getattr(obj, prefix, s)]
    IN  IF ~Truthy(reduce_or([i \in 1..Len(suffixes) |-> ret[suffixes[i]]]))
        THEN NoneObj
        ELSE ret

(* the statements of a conditional g.add *)
When(cond, stmts) == IF cond THEN stmts ELSE {}

(* address with the locality attached without the check of fields['city'] *)
address_NoCityCheck(self, obj, prefix) ==
    LET suffixes == <<"country", "city", "postalcode", "region", "street">>
        fields == obj_fields_by_name(obj, prefix, suffixes)
    IN  IF fields = NoneObj
        THEN Ret(self, PyNone)
        ELSE LET addrNode == BNode(self.nb)
             IN  Ret(g_add([self EXCEPT !.nb = @ + 1],
                       { <<addrNode, RDF_type, VCARD("Address")>>,
                         <<addrNode, VCARD("locality"), Literal(fields["city"])>> }
                       \cup When(Truthy(fields["street"]),
                              { <<addrNode, VCARD("street-address"), Literal(fields["street"])>> })
                       \cup When(Truthy(fields["region"]),
                              { <<addrNode, VCARD("region"), Literal(fields["region"])>> })
                       \cup When(Truthy(fields["postalcode"]),
                              { <<addrNode, VCARD("postal-code"), Literal(fields["postalcode"])>> })
                       \cup When(Truthy(fields["country"]),
                              { <<addrNode, VCARD("country"), Literal(fields["country"])>> })),
                     addrNode)

address(self, obj, prefix) ==
    LET suffixes == <<"country", "city", "postalcode", "region", "street">>
        fields == obj_fields_by_name(obj, prefix, suffixes)
    IN  IF fields = NoneObj
        THEN Ret(self, PyNone)
        ELSE LET addrNode == BNode(self.nb)
             IN  Ret(g_add([self EXCEPT !.nb = @ + 1],
                       { <<addrNode, RDF_type, VCARD("Address")>> }
                       \cup When(Truthy(fields["street"]),
                              { <<addrNode, VCARD("street-address"), Literal(fields["street"])>> })
                       \cup When(Truthy(fields["city"]),
                              { <<addrNode, VCARD("locality"), Literal(fields["city"])>> })
                       \cup When(Truthy(fields["region"]),
                              { <<addrNode, VCARD("region"), Literal(fields["region"])>> })
                       \cup When(Truthy(fields["postalcode"]),
                              { <<addrNode, VCARD("postal-code"), Literal(fields["postalcode"])>> })
                       \cup When(Truthy(fields["country"]),
                              { <<addrNode, VCARD("country"), Literal(fields["country"])>> })),
                     addrNode)

telephone(self, obj, prefix) ==
    LET suffixes == <<"type", "number", "preferred_p">>
        fields == obj_fields_by_name(obj, prefix, suffixes)
    IN  IF fields = NoneObj
        THEN Ret(self, PyNone)
        ELSE LET tNode == BNode(self.nb)
             IN  Ret(g_add([self EXCEPT !.nb = @ + 1],
                       { <<tNode, RDF_type, VCARD("Tel")>> }
                       \cup When(Truthy(fields["type"]),
                              { <<tNode, RDF_type,
                                  VCARD(Str(obj["get_" \o prefix \o "_type_display"]))>> })
                       \cup When(Truthy(fields["preferred_p"]) /\ Truthy(fields["preferred_p"]),
                              { <<tNode, RDF_type, VCARD("Pref")>> })
                       \cup When(Truthy(fields["number"]),
                              { <<tNode, VCARD("value"), Literal(fields["number"])>> })),
                     tNode)

name(self, obj, prefix) ==
    LET suffixes == <<"family", "given", "prefix", "suffix">>
        fields == obj_fields_by_name(obj, prefix, suffixes)
    IN  IF fields = NoneObj
        THEN Ret(self, PyNone)
        ELSE LET nNode == BNode(self.nb)
             IN  Ret(g_add([self EXCEPT !.nb = @ + 1],
                       { <<nNode, RDF_type, VCARD("Name")>> }
                       \cup When(Truthy(fields["family"]),
                              { <<nNode, VCARD("family-name"), Literal(fields["family"])>> })
                       \cup When(Truthy(fields["given"]),
                              { <<nNode, VCARD("given-name"), Literal(fields["given"])>> })
                       \cup When(Truthy(fields["prefix"]),
                              { <<nNode, VCARD("honorific-prefix"), Literal(fields["prefix"])>> })
                       \cup When(Truthy(fields["suffix"]),
                              { <<nNode, VCARD("honorific-suffix"), Literal(fields["suffix"])>> })),
                     nNode)

pharmacy(self, obj, prefix) ==
    LET suffixes == <<"ncpdpid", "org", "adr_country", "adr_city", "adr_postalcode",
                      "adr_region", "adr_street">>
        fields == obj_fields_by_name(obj, prefix, suffixes)
    IN  IF fields = NoneObj
        THEN Ret(self, PyNone)
        ELSE LET pNode == BNode(self.nb)
             IN  Bind(g_add([self EXCEPT !.nb = @ + 1],
                         { <<pNode, RDF_type, SP("Pharmacy")>> }
                         \cup When(Truthy(fields["ncpdpid"]),
                                { <<pNode, SP("ncpdpId"), Literal(fields["ncpdpid"])>> })
                         \cup When(Truthy(fields["org"]),
                                { <<pNode, VCARD("organization-name"), Literal(fields["org"])>> })),
                 LAMBDA s1 :
                 Bind(address(s1, obj, prefix \o "_adr"),
                 LAMBDA addr :
                     Ret(g_add(addr.self,
                               When(Truthy(addr.ret), { <<pNode, VCARD("adr"), addr.ret>> })),
                         pNode)))

provider(self, obj, prefix) ==
    LET suffixes == <<"dea_number", "ethnicity", "npi_number", "preferred_language",
                      "race", "bday", "email", "gender">>
        fields == obj_fields_by_name(obj, prefix, suffixes)
    IN  IF fields = NoneObj
        THEN Ret(self, PyNone)
        ELSE LET pNode == BNode(self.nb)
             IN  Bind(g_add([self EXCEPT !.nb = @ + 1],
                            { <<pNode, RDF_type, SP("Provider")>> }),
                 LAMBDA s1 :
                 Bind(name(s1, obj, prefix \o "_name"),
                 LAMBDA nm :
                 \* name is required: the edge is added whatever name() returned
                 Bind(g_add(nm.self,
                         { <<pNode, VCARD("n"), nm.ret>> }
                         \cup When(Truthy(fields["dea_number"]),
                                { <<pNode, SP("deaNumber"), Literal(fields["dea_number"])>> })
                         \cup When(Truthy(fields["ethnicity"]),
                                { <<pNode, SP("ethnicity"), Literal(fields["ethnicity"])>> })
                         \cup When(Truthy(fields["npi_number"]),
                                { <<pNode, SP("npiNumber"), Literal(fields["npi_number"])>> })
                         \cup When(Truthy(fields["preferred_language"]),
                                { <<pNode, SP("preferredLanguage"),
                                    Literal(fields["preferred_language"])>> })
                         \cup When(Truthy(fields["race"]),
                                { <<pNode, SP("race"), Literal(fields["race"])>> })
                         \cup When(Truthy(fields["bday"]),
                                { <<pNode, VCARD("bday"), Literal(fields["bday"])>> })
                         \cup When(Truthy(fields["email"]),
                                { <<pNode, VCARD("email"), Literal(fields["email"])>> })
                         \cup When(Truthy(fields["gender"]),
                                { <<pNode, FOAF("gender"), Literal(fields["gender"])>> })),
                 LAMBDA s2 :
                 Bind(address(s2, obj, prefix \o "_adr"),
                 LAMBDA addr :
                 Bind(telephone(g_add(addr.self,
                                      When(Truthy(addr.ret),
                                           { <<pNode, VCARD("adr"), addr.ret>> })),
                                obj, prefix \o "_tel_1"),
                 LAMBDA tel1 :
                 Bind(telephone(g_add(tel1.self,
                                      When(Truthy(tel1.ret),
                                           { <<pNode, VCARD("tel"), tel1.ret>> })),
                                obj, prefix \o "_tel_2"),
                 LAMBDA tel2 :
                     Ret(g_add(tel2.self,
                               When(Truthy(tel2.ret), { <<pNode, VCARD("tel"), tel2.ret>> })),
                         pNode)))))))

(* self.g.add((s, SP['belongsTo'], self.patient)) *)
addStatement(self, s) == g_add(self, { <<s, SP("belongsTo"), self.patient>> })

----------------------------------------------------------------------------
(* Top-level entity builders *)

(* obj.uri(modelname): the stable identifier string of a record *)
uri(obj, modelname) == PyStr("http://indivo.org/" \o modelname \o "/" \o obj.id)

(* a Python list argument, or None *)
List(items) == [class |-> "list", items |-> items]

(* the conditions of the optional edges of a medication *)
hasQuantity(m) == Truthy(m.quantity_value) /\ Truthy(m.quantity_unit)
hasFrequency(m) == Truthy(m.frequency_value) /\ Truthy(m.frequency_unit)
hasEndDate(m) == Truthy(m.endDate)
\* the provenance attached on its identifier alone
hasProvenance_IdentifierOnly(m) == Truthy(m.provenance_identifier)
hasProvenance(m) ==
    Truthy(m.provenance_identifier) /\ Truthy(m.provenance_title)
        /\ Truthy(m.provenance_system)

medication(self, m) ==
    IF ~TruthyObj(m)
    THEN Ret(self, PyNone)
    ELSE LET mNode == URIRef(uri(m, "medications"))
         IN  Bind(codedValue(g_add(self, { <<mNode, RDF_type, SP("Medication")>> }),
                             SPCODE("RxNorm_Semantic"),
                             Fmt(RXN_URI, m.drugName_identifier),
                             m.drugName_title,
                             Fmt(RXN_URI, PyStr("")),
                             m.drugName_identifier),
             LAMBDA drug :
             Bind(g_add(drug.self,
                        { <<mNode, SP("drugName"), drug.ret>>,
                          <<mNode, SP("startDate"), Literal(m.startDate)>>,
                          <<mNode, SP("instructions"), Literal(m.instructions)>> }),
             LAMBDA s1 :
             Bind(IF hasQuantity(m)
                  THEN Bind(valueAndUnit(s1, m.quantity_value, m.quantity_unit),
                            LAMBDA vu : g_add(vu.self, { <<mNode, SP("quantity"), vu.ret>> }))
                  ELSE s1,
             LAMBDA s2 :
             Bind(IF hasFrequency(m)
                  THEN Bind(valueAndUnit(s2, m.frequency_value, m.frequency_unit),
                            LAMBDA vu : g_add(vu.self, { <<mNode, SP("frequency"), vu.ret>> }))
                  ELSE s2,
             LAMBDA s3 :
             Bind(g_add(s3, When(hasEndDate(m),
                                 { <<mNode, SP("endDate"), Literal(m.endDate)>> })),
             LAMBDA s4 :
                 IF hasProvenance(m)
                 THEN Bind(codedValue(s4,
                                      SPCODE("MedicationProvenance"),
                                      Fmt(MED_PROV_URI, m.provenance_identifier),
                                      m.provenance_title,
                                      Fmt(MED_PROV_URI, PyStr("")),
                                      m.provenance_identifier),
                           LAMBDA cv :
                               Ret(g_add(cv.self, { <<mNode, SP("provenance"), cv.ret>> }),
                                   mNode))
                 ELSE Ret(s4, mNode))))))

addFill(self, fill, medNode, med_uri_only) ==
    LET rfNode == URIRef(uri(fill, "fullfillments"))
    IN  Bind(g_add(self,
                   { <<rfNode, RDF_type, SP("Fulfillment")>>,
                     <<rfNode, DCTERMS("date"), Literal(fill.date)>>,
                     <<rfNode, SP("dispenseDaysSupply"), Literal(fill.dispenseDaysSupply)>> }
                   \cup When(Truthy(fill.pbm), { <<rfNode, SP("pbm"), Literal(fill.pbm)>> })),
        LAMBDA s1 :
        Bind(pharmacy(s1, fill, "pharmacy"),
        LAMBDA pharmNode :
        Bind(g_add(pharmNode.self,
                   When(Truthy(pharmNode.ret), { <<rfNode, SP("pharmacy"), pharmNode.ret>> })),
        LAMBDA s2 :
        Bind(provider(s2, fill, "provider"),
        LAMBDA provNode :
        Bind(g_add(provNode.self,
                   When(Truthy(provNode.ret), { <<rfNode, SP("provider"), provNode.ret>> })),
        LAMBDA s3 :
        Bind(IF Truthy(fill.quantityDispensed_value) /\ Truthy(fill.quantityDispensed_unit)
             THEN Bind(valueAndUnit(s3, fill.quantityDispensed_value,
                                    fill.quantityDispensed_unit),
                       LAMBDA vu :
                           g_add(vu.self, { <<rfNode, SP("quantityDispensed"), vu.ret>> }))
             ELSE s3,
        LAMBDA s4 :
        \* link from medication to us
        Bind(g_add(s4, When(Truthy(medNode), { <<medNode, SP("fulfillment"), rfNode>> })),
        LAMBDA s5 :
        \* link from us to medication, just a URI or a whole Node if required
        Bind(IF TruthyObj(fill.medication) /\ med_uri_only
             THEN g_add(s5, { <<rfNode, SP("medication"),
                                URIRef(uri(fill.medication, "medications"))>> })
             ELSE IF TruthyObj(fill.medication) /\ ~med_uri_only
                  THEN g_add(s5, { <<rfNode, SP("medication"), medNode>> })
                  ELSE s5,
        LAMBDA s6 :
            Ret(addStatement(s6, rfNode), PyNone)))))))))

RECURSIVE addMedList_fills(_, _, _, _)
(* for fill in m.fulfillments.all().iterator(): self.addFill(fill, medNode=mNode) *)
addMedList_fills(self, fills, i, mNode) ==
    IF i > Len(fills)
    THEN Ret(self, PyNone)
    ELSE Bind(addFill(self, fills[i], mNode, TRUE),
              LAMBDA r : IF r.raised # "" THEN r
                         ELSE addMedList_fills(r.self, fills, i + 1, mNode))

RECURSIVE addMedList_meds(_, _, _)
(* for m in meds: ... *)
addMedList_meds(self, meds, i) ==
    IF i > Len(meds)
    THEN Ret(self, PyNone)
    ELSE Bind(medication(self, meds[i]),
         LAMBDA med :
         Bind(addStatement(med.self, med.ret),
         LAMBDA s1 :
             IF ~TruthyObj(meds[i])
             THEN Raise(s1, "AttributeError")
             ELSE Bind(addMedList_fills(s1, meds[i].fulfillments, 1, med.ret),
                       LAMBDA r : IF r.raised # "" THEN r
                                  ELSE addMedList_meds(r.self, meds, i + 1))))

addMedList(self, meds) ==
    IF ~TruthyObj(meds)
    THEN Ret(self, PyNone)
    ELSE addMedList_meds(self, meds.items, 1)

(* the medication built for every fill, the dictionary never consulted *)
addFillList_med_NoMemo(self, f, addedMeds) ==
    Bind(medication(self, f.medication),
         LAMBDA med : [self |-> addStatement(med.self, med.ret),
                       addedMeds |-> (f.medication.id :> med.ret) @@ addedMeds,
                       medNode |-> med.ret])

(* the medication looked up in the graph in place of the dictionary: a medication
   the graph already types is reused without being built *)
addFillList_med_GraphMemo(self, f, addedMeds) ==
    LET mNode == URIRef(uri(f.medication, "medications"))
    IN  IF <<mNode, RDF_type, SP("Medication")>> \in self.g
        THEN [self |-> self, addedMeds |-> addedMeds, medNode |-> mNode]
        ELSE Bind(medication(self, f.medication),
                  LAMBDA med : [self |-> addStatement(med.self, med.ret),
                                addedMeds |-> (f.medication.id :> med.ret) @@ addedMeds,
                                medNode |-> med.ret])

(* medNode = addedMeds.get(f.medication.id, None), built and linked to the patient
   if that is falsy: the builder and the dictionary after it, and medNode *)
addFillList_med(self, f, addedMeds) ==
    LET id == f.medication.id
        cached == IF id \in DOMAIN addedMeds THEN addedMeds[id] ELSE PyNone
    IN  IF ~Truthy(cached)
        THEN Bind(medication(self, f.medication),
                  LAMBDA med : [self |-> addStatement(med.self, med.ret),
                                addedMeds |-> (id :> med.ret) @@ addedMeds,
                                medNode |-> med.ret])
        ELSE [self |-> self, addedMeds |-> addedMeds, medNode |-> cached]

RECURSIVE addFillList_fills(_, _, _, _)
(* for f in fills: ..., addedMeds the dictionary medication id -> med node *)
addFillList_fills(self, fills, i, addedMeds) ==
    IF i > Len(fills)
    THEN Ret(self, PyNone)
    ELSE IF ~TruthyObj(fills[i].medication)
         THEN Raise(self, "AttributeError")
         ELSE Bind(addFillList_med(self, fills[i], addedMeds),
              LAMBDA got :
              Bind(addFill(got.self, fills[i], got.medNode, FALSE),
              LAMBDA r :
                  IF r.raised # "" THEN r
                  ELSE addFillList_fills(r.self, fills, i + 1, got.addedMeds)))

addFillList(self, fills) ==
    IF ~TruthyObj(fills)
    THEN Ret(self, PyNone)
    ELSE addFillList_fills(self, fills.items, 1, [id \in {} |-> PyNone])

(* the body of "for prob in problems": the statements are added one by one, and
   the first attribute the record lacks ends the call after those before it *)
addProblem(self, prob) ==
    LET pnode == URIRef(uri(prob, "problems"))
    IN  Bind(g_add(self, { <<pnode, RDF_type, SP("Problem")>> }),
        LAMBDA s1 :
        IF ~hasattr(prob, "startDate") THEN Raise(s1, "AttributeError")
        ELSE
        Bind(g_add(s1, { <<pnode, SP("startDate"), Literal(prob.startDate)>> }),
        LAMBDA s2 :
        IF ~hasattr(prob, "endDate") THEN Raise(s2, "AttributeError")
        ELSE
        Bind(g_add(s2, When(Truthy(prob.endDate),
                            { <<pnode, SP("endDate"), Literal(prob.endDate)>> })),
        LAMBDA s3 :
        IF ~hasattr(prob, "notes") THEN Raise(s3, "AttributeError")
        ELSE
        Bind(g_add(s3, When(Truthy(prob.notes),
                            { <<pnode, SP("notes"), Literal(prob.notes)>> })),
        LAMBDA s4 :
        IF ~hasattr(prob, "name_identifier") \/ ~hasattr(prob, "name_title")
        THEN Raise(s4, "AttributeError")
        ELSE
        Bind(codedValue(s4,
                        SPCODE("SNOMED"),
                        Fmt(SNOMED_URI, prob.name_identifier),
                        prob.name_title,
                        Fmt(SNOMED_URI, PyStr("")),
                        prob.name_identifier),
        LAMBDA cv :
            Ret(addStatement(g_add(cv.self, { <<pnode, SP("problemName"), cv.ret>> }),
                             pnode),
                PyNone))))))

RECURSIVE addProblemList_probs(_, _, _)
(* for prob in problems: ... *)
addProblemList_probs(self, problems, i) ==
    IF i > Len(problems)
    THEN Ret(self, PyNone)
    ELSE Bind(addProblem(self, problems[i]),
              LAMBDA r : IF r.raised # "" THEN r
                         ELSE addProblemList_probs(r.self, problems, i + 1))

(* iterating None raises TypeError; there is no test of the list *)
addProblemList(self, problems) ==
    IF problems = NoneObj
    THEN Raise(self, "TypeError")
    ELSE addProblemList_probs(self, problems.items, 1)

(* pNode is linked to the patient, then the unbound name g is read *)
addDemographics(self, record) ==
    Raise(addStatement([self EXCEPT !.nb = @ + 1], BNode(self.nb)), "NameError")

(* addVitalSigns, addImmunizations, addLabResults and addAllergies read self.pid
   first, an attribute the builder never sets *)
addVitalSigns(self) == Raise(self, "AttributeError")
addImmunizations(self) == Raise(self, "AttributeError")
addLabResults(self) == Raise(self, "AttributeError")
addAllergies(self) == Raise(self, "AttributeError")

----------------------------------------------------------------------------
(* Input records *)

MaxCalls == 2
MaxAddCalls == 2
MaxHelperCalls == 1
MaxList == 2

(* the attributes <prefix>_<suffix> of a record, from the record suffix -> value *)
Group(prefix, vals) ==
    [n \in {prefix \o "_" \o s : s \in DOMAIN vals} |->
        vals[CHOOSE s \in DOMAIN vals : prefix \o "_" \o s = n]]

Opt(text) == {PyNone, PyStr(text)}

AddressVals ==
    [country : Opt("US"), city : Opt("Boston"), postalcode : Opt("02115"),
     region : Opt("MA"), street : {PyNone, PyStr(""), PyStr("1 Main St")}]
NameVals ==
    [family : Opt("Smith"), given : Opt("Ann"), prefix : Opt("Dr"),
     suffix : {PyStr(""), PyStr("MD")}]
TelephoneVals ==
    [type : Opt("h"), number : Opt("555-1234"), preferred_p : {PyNone, PyFalse, PyTrue}]
PharmacyVals == [ncpdpid : Opt("1234567"), org : {PyStr(""), PyStr("CVS")}]
ProviderVals ==
    [dea_number : Opt("AB1234567"), ethnicity : Opt("eth"), npi_number : Opt("1234567890"),
     preferred_language : Opt("en"), race : Opt("race"), bday : Opt("1970-01-01"),
     email : Opt("ann@example.org"), gender : Opt("female")]

NoAddress == [country |-> PyNone, city |-> PyNone, postalcode |-> PyNone,
              region |-> PyNone, street |-> PyNone]
FullAddress == [country |-> PyStr("US"), city |-> PyStr("Boston"),
                postalcode |-> PyStr("02115"), region |-> PyStr("MA"),
                street |-> PyStr("1 Main St")]
NoName == [family |-> PyNone, given |-> PyNone, prefix |-> PyNone, suffix |-> PyStr("")]
FullName == [family |-> PyStr("Smith"), given |-> PyStr("Ann"), prefix |-> PyStr("Dr"),
             suffix |-> PyStr("MD")]
NoTelephone == [type |-> PyNone, number |-> PyNone, preferred_p |-> PyFalse]
FullTelephone == [type |-> PyStr("h"), number |-> PyStr("555-1234"), preferred_p |-> PyTrue]
NoPharmacy == [ncpdpid |-> PyNone, org |-> PyStr("")]
FullPharmacy == [ncpdpid |-> PyStr("1234567"), org |-> PyStr("CVS")]
NoProvider ==
    [dea_number |-> PyNone, ethnicity |-> PyNone, npi_number |-> PyNone,
     preferred_language |-> PyNone, race |-> PyNone, bday |-> PyNone,
     email |-> PyNone, gender |-> PyNone]
FullProvider ==
    [dea_number |-> PyStr("AB1234567"), ethnicity |-> PyStr("eth"),
     npi_number |-> PyStr("1234567890"), preferred_language |-> PyStr("en"),
     race |-> PyStr("race"), bday |-> PyStr("1970-01-01"),
     email |-> PyStr("ann@example.org"), gender |-> PyStr("female")]

(* the provider fields: none, all, or exactly one of them *)
ProviderPatterns ==
    {NoProvider, FullProvider}
    \cup {[NoProvider EXCEPT ![s] = FullProvider[s]] : s \in DOMAIN NoProvider}

(* get_<prefix>_type_display() of a telephone: the label of the stored choice *)
TelephoneObj(prefix, vals) ==
    Group(prefix, vals)
    @@ (("get_" \o prefix \o "_type_display") :>
            (IF vals.type = PyStr("h") THEN PyStr("Home") ELSE vals.type))

PharmacyObj(prefix, own, adr) == Group(prefix, own) @@ Group(prefix \o "_adr", adr)

ProviderObj(prefix, own, nm, adr, tel1, tel2) ==
    Group(prefix, own) @@ Group(prefix \o "_name", nm) @@ Group(prefix \o "_adr", adr)
    @@ TelephoneObj(prefix \o "_tel_1", tel1) @@ TelephoneObj(prefix \o "_tel_2", tel2)

(* Medication records; fill.medication carries no fulfillments of its own here,
   medication() and addFill() do not read them *)
FullMedication(id) ==
    [class |-> "Medication", id |-> id,
     drugName_identifier |-> PyStr("12345"), drugName_title |-> PyStr("Aspirin"),
     startDate |-> PyStr("2011-01-01"), instructions |-> PyStr("daily"),
     quantity_value |-> PyStr("2"), quantity_unit |-> PyStr("tablets"),
     frequency_value |-> PyStr("1"), frequency_unit |-> PyStr("/d"),
     endDate |-> PyStr("2011-06-01"),
     provenance_identifier |-> PyStr("prescription"),
     provenance_title |-> PyStr("Prescription"),
     provenance_system |-> PyStr(MED_PROV_URI)]

BareMedication(id) ==
    [FullMedication(id) EXCEPT !.quantity_value = PyNone, !.quantity_unit = PyNone,
                               !.frequency_value = PyNone, !.frequency_unit = PyNone,
                               !.endDate = PyNone, !.provenance_identifier = PyNone,
                               !.provenance_title = PyNone, !.provenance_system = PyNone]

(* every combination of present and absent optional fields of one medication *)
MedicationRecords ==
    [class : {"Medication"}, id : {"m1"},
     drugName_identifier : {PyStr("12345")}, drugName_title : Opt("Aspirin"),
     startDate : {PyStr("2011-01-01")}, instructions : {PyStr("daily")},
     quantity_value : Opt("2"), quantity_unit : Opt("tablets"),
     frequency_value : Opt("1"), frequency_unit : {PyStr(""), PyStr("/d")},
     endDate : Opt("2011-06-01"),
     provenance_identifier : Opt("prescription"),
     provenance_title : {PyStr(""), PyStr("Prescription")},
     provenance_system : Opt(MED_PROV_URI)]

Fill(id, med, pbm, qv, qu, pharm, pharmAdr, prov, provName, provAdr, tel1, tel2) ==
    [class |-> "Fill", id |-> id, medication |-> med,
     date |-> PyStr("2011-02-01"), dispenseDaysSupply |-> PyStr("30"), pbm |-> pbm,
     quantityDispensed_value |-> qv, quantityDispensed_unit |-> qu]
    @@ PharmacyObj("pharmacy", pharm, pharmAdr)
    @@ ProviderObj("provider", prov, provName, provAdr, tel1, tel2)

(* f1: everything present; f2: a provider without a name, a quantity without a unit;
   f3: required fields only; f4: a fill of no medication *)
f1 == Fill("f1", FullMedication("m1"), PyStr("T00000000001011"), PyStr("30"), PyStr("tablets"),
           FullPharmacy, FullAddress, FullProvider, FullName, FullAddress,
           FullTelephone, NoTelephone)
f2 == Fill("f2", FullMedication("m1"), PyNone, PyStr("30"), PyNone,
           NoPharmacy, NoAddress, [NoProvider EXCEPT !.npi_number = PyStr("1234567890")],
           NoName, NoAddress, NoTelephone, NoTelephone)
f3 == Fill("f3", BareMedication("m2"), PyNone, PyNone, PyNone,
           NoPharmacy, NoAddress, NoProvider, NoName, NoAddress, NoTelephone, NoTelephone)
f4 == Fill("f4", NoneObj, PyStr("T00000000001011"), PyNone, PyNone,
           NoPharmacy, NoAddress, NoProvider, FullName, NoAddress, NoTelephone, NoTelephone)
Fills == {f1, f2, f3, f4}

(* m.fulfillments.all().iterator(): the fills of the medication *)
m1 == FullMedication("m1") @@ [fulfillments |-> <<f1, f2>>]
m2 == BareMedication("m2") @@ [fulfillments |-> <<f3>>]
Medications == {m1, m2}

Problem(id, endDate, notes, title) ==
    [class |-> "Problem", id |-> id, startDate |-> PyStr("2010-05-01"),
     endDate |-> endDate, notes |-> notes,
     name_identifier |-> PyStr("38341003"), name_title |-> title]
p1 == Problem("p1", PyStr("2010-06-01"), PyStr("resolved"), PyStr("Hypertension"))
p2 == Problem("p2", PyNone, PyStr(""), PyNone)

(* an instance of the class Problem of the data model: its declared fields *)
Problem_model(id) ==
    [class |-> "Problem", id |-> id,
     date_onset |-> PyStr("2010-05-01"), date_resolution |-> PyStr("2010-06-01"),
     name |-> PyStr("Hypertension"), name_type |-> PyNone, name_value |-> PyNone,
     name_abbrev |-> PyNone, comments |-> PyStr("resolved"), diagnosed_by |-> PyNone]
p3 == Problem_model("p3")
Problems == {p1, p2, p3}

RECURSIVE Sublists(_)
(* the sublists of a list: the results of a query on a table, in the table's order *)
Sublists(table) ==
    IF Len(table) = 0 THEN {<<>>}
    ELSE LET rest == Sublists(Tail(table))
         IN  rest \cup {<<Head(table)>> \o q : q \in rest}

(* the lists of at most n records of a table, and None *)
Lists(table, n) ==
    {NoneObj} \cup {List(q) : q \in {q \in Sublists(table) : Len(q) <= n}}

(* the arguments of addFill: the fill, medNode, med_uri_only *)
AddFillArgs ==
    {[fill |-> f, medNode |-> n, med_uri_only |-> u] :
        f \in Fills, n \in {PyNone, URIRef(uri(FullMedication("m1"), "medications"))},
        u \in BOOLEAN}

CodedValueArgs ==
    [codeclass : {PyNone, PyStr(""), SPCODE("SNOMED")},
     uri : {PyNone, PyStr(""), Fmt(SNOMED_URI, PyStr("38341003"))},
     title : {PyNone, PyStr(""), PyStr("Hypertension")},
     system : {PyNone, PyStr(""), Fmt(SNOMED_URI, PyStr(""))},
     identifier : {PyNone, PyStr(""), PyStr("38341003")}]

ValueAndUnitArgs ==
    [value : {PyNone, PyStr(""), PyStr("30")}, units : {PyNone, PyStr(""), PyStr("tablets")}]

----------------------------------------------------------------------------
(* The state machine: one builder, one action per method called on it.  last is
   the last call (its name, arguments, return value and exception), before the
   name and arguments of the call made before it, gPrev the
   graph before it. *)

Self == Builder(g, nb, patient)

Init ==
    /\ g = PatientGraph.g
    /\ nb = PatientGraph.nb
    /\ patient = PatientGraph.patient
    /\ last = [op |-> "__init__", args |-> <<>>, ret |-> PyNone, raised |-> ""]
    /\ gPrev = {}
    /\ calls = 0
    /\ before = [op |-> "", args |-> <<>>]

Do(op, args, call) ==
    \E r \in {call} :
    /\ g' = r.self.g
    /\ nb' = r.self.nb
    /\ patient' = r.self.patient
    /\ last' = [op |-> op, args |-> args, ret |-> r.ret, raised |-> r.raised]
    /\ gPrev' = g
    /\ calls' = calls + 1
    /\ before' = [op |-> last.op, args |-> last.args]

CallCodedValue(Args) ==
    \E a \in Args :
        Do("codedValue", a,
           codedValue(Self, a.codeclass, a.uri, a.title, a.system, a.identifier))

CallValueAndUnit(Args) ==
    \E a \in Args : Do("valueAndUnit", a, valueAndUnit(Self, a.value, a.units))

CallAddress(Args) ==
    \E a \in Args : Do("address", a, address(Self, a.obj, a.prefix))

CallTelephone(Args) ==
    \E a \in Args : Do("telephone", a, telephone(Self, a.obj, a.prefix))

CallName(Args) ==
    \E a \in Args : Do("name", a, name(Self, a.obj, a.prefix))

CallPharmacy(Args) ==
    \E a \in Args : Do("pharmacy", a, pharmacy(Self, a.obj, a.prefix))

CallProvider(Args) ==
    \E a \in Args : Do("provider", a, provider(Self, a.obj, a.prefix))

CallMedication(Args) ==
    \E m \in Args : Do("medication", [m |-> m], medication(Self, m))

CallAddMedList(Args) ==
    \E meds \in Args : Do("addMedList", [meds |-> meds], addMedList(Self, meds))

CallAddFill(Args) ==
    \E a \in Args : Do("addFill", a, addFill(Self, a.fill, a.medNode, a.med_uri_only))

CallAddFillList(Args) ==
    \E fills \in Args : Do("addFillList", [fills |-> fills], addFillList(Self, fills))

CallAddProblemList(Args) ==
    \E problems \in Args :
        Do("addProblemList", [problems |-> problems], addProblemList(Self, problems))

CallAddStatement(Args) ==
    \E s \in Args : Do("addStatement", [s |-> s], Ret(addStatement(Self, s), PyNone))

CallAddDemographics == Do("addDemographics", <<>>, addDemographics(Self, NoneObj))
CallAddVitalSigns == Do("addVitalSigns", <<>>, addVitalSigns(Self))
CallAddImmunizations == Do("addImmunizations", <<>>, addImmunizations(Self))
CallAddLabResults == Do("addLabResults", <<>>, addLabResults(Self))
CallAddAllergies == Do("addAllergies", <<>>, addAllergies(Self))

(* fewer than max calls were made on the builder *)
Within(max) == calls < max

(* a call of a composite builder on obj with a prefix *)
On(objs, prefix) == {[obj |-> o, prefix |-> prefix] : o \in objs}

----------------------------------------------------------------------------
(* SpecAdd: any sequence of the four top-level add methods on one builder *)

MedLists == Lists(<<m1, m2>>, MaxList)
FillLists == Lists(<<f1, f2, f3, f4>>, MaxList)
ProblemLists == Lists(<<p1, p2, p3>>, MaxList)

NextAdd ==
    \/ Within(MaxAddCalls) /\ CallAddMedList(MedLists)
    \/ Within(MaxAddCalls) /\ CallAddFill(AddFillArgs)
    \/ Within(MaxAddCalls) /\ CallAddFillList(FillLists)
    \/ Within(MaxAddCalls) /\ CallAddProblemList(ProblemLists)

SpecAdd == Init /\ [][NextAdd]_vars

----------------------------------------------------------------------------
(* SpecCoded: codedValue and valueAndUnit on every combination of empty and
   non-empty arguments *)

NextCoded ==
    \/ Within(MaxHelperCalls) /\ CallCodedValue(CodedValueArgs)
    \/ Within(MaxHelperCalls) /\ CallValueAndUnit(ValueAndUnitArgs)

SpecCoded == Init /\ [][NextCoded]_vars

----------------------------------------------------------------------------
(* SpecComposite: the composite builders on records with every combination of
   empty and non-empty fields of their suffix sets *)

AddressArgs ==
    UNION {On({Group(prefix, v) : v \in AddressVals}, prefix) :
              prefix \in {"pharmacy_adr", "provider_adr"}}
TelephoneArgs ==
    UNION {On({TelephoneObj(prefix, v) : v \in TelephoneVals}, prefix) :
              prefix \in {"provider_tel_1", "provider_tel_2"}}
NameArgs == On({Group("provider_name", v) : v \in NameVals}, "provider_name")
PharmacyArgs ==
    On({PharmacyObj("pharmacy", own, adr) :
           own \in PharmacyVals,
           adr \in {NoAddress, FullAddress, [NoAddress EXCEPT !.city = PyStr("Boston")]}},
       "pharmacy")
ProviderArgs ==
    On({ProviderObj("provider", own, nm, adr, tel1, tel2) :
           own \in ProviderPatterns,
           nm \in {NoName, [NoName EXCEPT !.family = PyStr("Smith")]},
           adr \in {NoAddress, FullAddress},
           tel1 \in {NoTelephone, FullTelephone, [NoTelephone EXCEPT !.number = PyStr("555-1234")]},
           tel2 \in {NoTelephone, FullTelephone}},
       "provider")

NextComposite ==
    \/ Within(MaxHelperCalls) /\ CallAddress(AddressArgs)
    \/ Within(MaxHelperCalls) /\ CallTelephone(TelephoneArgs)
    \/ Within(MaxHelperCalls) /\ CallName(NameArgs)
    \/ Within(MaxHelperCalls) /\ CallPharmacy(PharmacyArgs)
    \/ Within(MaxHelperCalls) /\ CallProvider(ProviderArgs)

SpecComposite == Init /\ [][NextComposite]_vars

----------------------------------------------------------------------------
(* SpecMed: medication() on every combination of present and absent optional
   fields *)

MedicationArgs == MedicationRecords \cup {NoneObj}

NextMed ==
    \/ Within(MaxHelperCalls) /\ CallMedication(MedicationArgs)

SpecMed == Init /\ [][NextMed]_vars

----------------------------------------------------------------------------
(* Spec: a session of the builder, every method callable in any order *)

SessionCodedValueArgs ==
    {a \in CodedValueArgs :
        \/ \A k \in DOMAIN a : a[k] = PyNone
        \/ \A k \in DOMAIN a : Truthy(a[k])
        \/ \A k \in DOMAIN a : IF k = "title" THEN Truthy(a[k]) ELSE a[k] = PyNone}
SessionValueAndUnitArgs ==
    {a \in ValueAndUnitArgs : a.units # PyStr("") /\ a.value # PyNone}
SessionAddressArgs == On({f1, f2}, "provider_adr")
SessionTelephoneArgs == On({f1, f2}, "provider_tel_1")
SessionNameArgs == On({f1, f2}, "provider_name")
SessionPharmacyArgs == On({f1, f2}, "pharmacy")
SessionProviderArgs == On({f1, f2, f3}, "provider")
SessionMedications == {m1, m2, NoneObj}
SessionMedLists == {NoneObj, List(<<m1>>), List(<<m2, m1>>)}
SessionAddFillArgs == {a \in AddFillArgs : a.fill \in {f2, f4}}
SessionFillLists == {NoneObj, List(<<f1, f2>>), List(<<f3, f4>>)}
SessionProblemLists == {NoneObj, List(<<>>), List(<<p1, p2>>), List(<<p3>>)}
SessionStatements == {PyNone, URIRef(uri(FullMedication("m1"), "medications"))}

Next ==
    \/ Within(MaxCalls) /\ CallCodedValue(SessionCodedValueArgs)
    \/ Within(MaxCalls) /\ CallValueAndUnit(SessionValueAndUnitArgs)
    \/ Within(MaxCalls) /\ CallAddress(SessionAddressArgs)
    \/ Within(MaxCalls) /\ CallTelephone(SessionTelephoneArgs)
    \/ Within(MaxCalls) /\ CallName(SessionNameArgs)
    \/ Within(MaxCalls) /\ CallPharmacy(SessionPharmacyArgs)
    \/ Within(MaxCalls) /\ CallProvider(SessionProviderArgs)
    \/ Within(MaxCalls) /\ CallMedication(SessionMedications)
    \/ Within(MaxCalls) /\ CallAddMedList(SessionMedLists)
    \/ Within(MaxCalls) /\ CallAddFill(SessionAddFillArgs)
    \/ Within(MaxCalls) /\ CallAddFillList(SessionFillLists)
    \/ Within(MaxCalls) /\ CallAddProblemList(SessionProblemLists)
    \/ Within(MaxCalls) /\ CallAddStatement(SessionStatements)
    \/ Within(MaxCalls) /\ CallAddDemographics
    \/ Within(MaxCalls) /\ CallAddVitalSigns
    \/ Within(MaxCalls) /\ CallAddImmunizations
    \/ Within(MaxCalls) /\ CallAddLabResults
    \/ Within(MaxCalls) /\ CallAddAllergies

Spec == Init /\ [][Next]_vars

----------------------------------------------------------------------------
(* Properties *)

(* the statements added by the last call *)
New == g \ gPrev

(* the nodes the graph types as cls *)
Typed(cls) == {t[1] : t \in {u \in g : u[2] = RDF_type /\ u[3] = SP(cls)}}

(* the objects of the p edges of node n among the statements of graph *)
Objects(graph, n, p) == {t[3] : t \in {u \in graph : u[1] = n /\ u[2] = p}}

(* no argument of the record a is truthy *)
AllEmpty(a) == \A k \in DOMAIN a : ~Truthy(a[k])

(* C1: after any sequence of addMedList, addFill, addFillList and addProblemList,
   every node typed Medication, Fulfillment or Problem has a belongsTo edge to
   the patient anchor. *)
C1_RootsBelongToPatient ==
    \A n \in Typed("Medication") \cup Typed("Fulfillment") \cup Typed("Problem") :
        <<n, SP("belongsTo"), patient>> \in g

(* addProblemList raised on a record that lacks startDate, after typing its node
   as a Problem and before linking it to the patient *)
C1_Witness ==
    /\ last.op = "addProblemList"
    /\ last.raised = "AttributeError"
    /\ \E n \in Typed("Problem") : <<n, SP("belongsTo"), patient>> \notin g

(* C2: the graph is append-only: every operation of the builder leaves every
   statement of the graph in the graph. *)
C2_AppendOnly == [][g \subseteq g']_vars

(* a second call added statements to a graph a first call had added to *)
C2_Witness ==
    /\ calls = 2
    /\ gPrev # PatientGraph.g
    /\ gPrev \subseteq g
    /\ g # gPrev

(* C3: no statement of the graph has None as its subject or as its object. *)
C3_NoNullStatement == \A t \in g : t[1] # PyNone /\ t[3] # PyNone

(* C4: a call of addFillList that returns builds each distinct medication of
   the list exactly once: each fill's medication and each fill is a typed root,
   the call adds exactly one drugName edge per medication, and the medication
   edge the call adds to a fill points to the node of the fill's medication; on
   a fresh builder there is one Medication root per distinct medication and one
   Fulfillment root per fill. *)
C4_MedicationBuiltOnce ==
    (last.op = "addFillList" /\ last.raised = "" /\ TruthyObj(last.args.fills)) =>
        LET fills == last.args.fills.items
            medNode(i) == URIRef(uri(fills[i].medication, "medications"))
            fillNode(i) == URIRef(uri(fills[i], "fullfillments"))
        IN  /\ \A i \in DOMAIN fills :
                /\ medNode(i) \in Typed("Medication")
                /\ fillNode(i) \in Typed("Fulfillment")
                /\ Cardinality(Objects(New, medNode(i), SP("drugName"))) = 1
                /\ <<fillNode(i), SP("medication"), medNode(i)>> \in g
                /\ Objects(New, fillNode(i), SP("medication")) \subseteq {medNode(i)}
            /\ calls = 1 =>
                /\ Cardinality(Typed("Medication"))
                      = Cardinality({fills[i].medication.id : i \in DOMAIN fills})
                /\ Cardinality(Typed("Fulfillment"))
                      = Cardinality({fills[i].id : i \in DOMAIN fills})

(* addFillList returned from a list with two fills of the same medication *)
C4_Witness ==
    /\ last.op = "addFillList"
    /\ last.raised = ""
    /\ TruthyObj(last.args.fills)
    /\ \E i, j \in DOMAIN last.args.fills.items :
          /\ i # j
          /\ last.args.fills.items[i].medication.id = last.args.fills.items[j].medication.id

(* C5: codedValue returns None and leaves the graph unchanged if all five
   arguments are falsy, and returns a CodedValue node otherwise. *)
C5_CodedValueNullIffAllEmpty ==
    last.op = "codedValue" =>
        IF AllEmpty(last.args)
        THEN last.ret = PyNone /\ g = gPrev
        ELSE /\ last.ret # PyNone
             /\ last.ret[1] = "BNode"
             /\ <<last.ret, RDF_type, SP("CodedValue")>> \in New

(* codedValue was called with None and "" arguments only *)
C5_Witness ==
    /\ last.op = "codedValue"
    /\ AllEmpty(last.args)
    /\ last.args.title = PyStr("")
    /\ last.args.uri = PyNone
    /\ last.ret = PyNone

(* exactly one argument of the record a is truthy *)
OneNonEmpty(a) == Cardinality({k \in DOMAIN a : Truthy(a[k])}) = 1

(* the statement t is an edge that carries the argument k of codedValue *)
ArgEdge(k, t) ==
    CASE k = "title" -> t[2] = DCTERMS("title")
      [] k = "system" -> t[2] = SP("system")
      [] k = "identifier" -> t[2] = DCTERMS("identifier")
      [] k = "uri" -> t[2] = SP("code")
      [] k = "codeclass" -> t[2] = RDF_type /\ t[3] \notin {SP("CodedValue"), SP("Code")}

(* C6, as claimed: a call of codedValue with exactly one non-empty argument
   returns a node and adds no title, system, identifier, code or class edge for
   an argument that is empty. *)
C6_OnlyTruthyEdges ==
    (last.op = "codedValue" /\ OneNonEmpty(last.args)) =>
        /\ last.ret # PyNone
        /\ \A k \in DOMAIN last.args :
              ~Truthy(last.args[k]) => ~(\E t \in New : ArgEdge(k, t))

(* C6, amended: a call of codedValue with exactly one non-empty argument
   returns a node that carries every one of the title, code, class, system and
   identifier edges, those of the empty arguments included. *)
C6_AllEdgesAttached ==
    (last.op = "codedValue" /\ OneNonEmpty(last.args)) =>
        /\ last.ret # PyNone
        /\ Literal(last.args.title) \in Objects(g, last.ret, DCTERMS("title"))
        /\ Objects(g, last.ret, SP("code")) = {URIRef(last.args.uri)}
        /\ \A c \in Objects(g, last.ret, SP("code")) :
              /\ last.args.codeclass \in Objects(g, c, RDF_type)
              /\ SP("Code") \in Objects(g, c, RDF_type)
              /\ Literal(last.args.title) \in Objects(g, c, DCTERMS("title"))
              /\ Literal(last.args.system) \in Objects(g, c, SP("system"))
              /\ Literal(last.args.identifier) \in Objects(g, c, DCTERMS("identifier"))

(* codedValue was called with a title and nothing else *)
C6_Witness ==
    /\ last.op = "codedValue"
    /\ OneNonEmpty(last.args)
    /\ Truthy(last.args.title)
    /\ last.ret # PyNone

(* C7, as claimed: valueAndUnit returns None when both arguments are empty; with
   only the value the node has the value literal and no unit literal, with only
   the units it has the unit literal and no value literal. *)
C7_OnlyPresentLiteral ==
    last.op = "valueAndUnit" =>
        /\ AllEmpty(last.args) => last.ret = PyNone
        /\ (Truthy(last.args.value) /\ ~Truthy(last.args.units)) =>
              /\ last.ret # PyNone
              /\ Objects(g, last.ret, SP("value")) # {}
              /\ Objects(g, last.ret, SP("unit")) = {}
        /\ (~Truthy(last.args.value) /\ Truthy(last.args.units)) =>
              /\ last.ret # PyNone
              /\ Objects(g, last.ret, SP("unit")) # {}
              /\ Objects(g, last.ret, SP("value")) = {}

(* C7, amended: valueAndUnit returns None and adds nothing when both arguments
   are empty; when exactly one is non-empty the node returned has both the value
   literal and the unit literal, the empty one included. *)
C7_BothLiteralsAttached ==
    last.op = "valueAndUnit" =>
        /\ AllEmpty(last.args) => (last.ret = PyNone /\ g = gPrev)
        /\ OneNonEmpty(last.args) =>
              /\ last.ret # PyNone
              /\ <<last.ret, RDF_type, SP("ValueAndUnit")>> \in g
              /\ Objects(g, last.ret, SP("value")) = {Literal(last.args.value)}
              /\ Objects(g, last.ret, SP("unit")) = {Literal(last.args.units)}

(* valueAndUnit was called with a value and no units *)
C7_Witness ==
    /\ last.op = "valueAndUnit"
    /\ Truthy(last.args.value)
    /\ ~Truthy(last.args.units)
    /\ last.ret # PyNone

(* the composite builders and their suffix sets *)
Composite == {"address", "name", "telephone", "pharmacy", "provider"}

SuffixSet(op) ==
    CASE op = "address" -> {"country", "city", "postalcode", "region", "street"}
      [] op = "name" -> {"family", "given", "prefix", "suffix"}
      [] op = "telephone" -> {"type", "number", "preferred_p"}
      [] op = "pharmacy" -> {"ncpdpid", "org", "adr_country", "adr_city", "adr_postalcode",
                             "adr_region", "adr_street"}
      [] op = "provider" -> {"dea_number", "ethnicity", "npi_number", "preferred_language",
                             "race", "bday", "email", "gender"}

(* the predicate of the edge of a field *)
FieldPredicate ==
    [country |-> VCARD("country"), city |-> VCARD("locality"),
     postalcode |-> VCARD("postal-code"), region |-> VCARD("region"),
     street |-> VCARD("street-address"),
     family |-> VCARD("family-name"), given |-> VCARD("given-name"),
     prefix |-> VCARD("honorific-prefix"), suffix |-> VCARD("honorific-suffix"),
     number |-> VCARD("value"),
     ncpdpid |-> SP("ncpdpId"), org |-> VCARD("organization-name"),
     adr_country |-> VCARD("country"), adr_city |-> VCARD("locality"),
     adr_postalcode |-> VCARD("postal-code"), adr_region |-> VCARD("region"),
     adr_street |-> VCARD("street-address"),
     dea_number |-> SP("deaNumber"), ethnicity |-> SP("ethnicity"),
     npi_number |-> SP("npiNumber"), preferred_language |-> SP("preferredLanguage"),
     race |-> SP("race"), bday |-> VCARD("bday"), email |-> VCARD("email"),
     gender |-> FOAF("gender")]

(* the node n, built by op, carries the edge of the field s: a telephone's type and
   preferred_p are types of the node, a pharmacy's adr fields edges of its address *)
FieldEdge(op, n, s) ==
    CASE s = "type" -> Objects(g, n, RDF_type) \ {VCARD("Tel"), VCARD("Pref")} # {}
      [] s = "preferred_p" -> VCARD("Pref") \in Objects(g, n, RDF_type)
      [] s \in {"adr_country", "adr_city", "adr_postalcode", "adr_region", "adr_street"} ->
            \E a \in Objects(g, n, VCARD("adr")) : Objects(g, a, FieldPredicate[s]) # {}
      [] OTHER -> Objects(g, n, FieldPredicate[s]) # {}

(* the value of the field s of the last call's record *)
FieldValue(s) == getattr(last.args.obj, last.args.prefix, s)

(* C8: a composite builder called on a record whose suffix-set fields are all
   falsy returns None and adds no statement. *)
C8_EmptyFieldsBuildNothing ==
    (last.op \in Composite /\ \A s \in SuffixSet(last.op) : ~Truthy(FieldValue(s))) =>
        (last.ret = PyNone /\ g = gPrev)

(* provider was called on a record with a name and none of the provider's own fields *)
C8_Witness ==
    /\ last.op = "provider"
    /\ \A s \in SuffixSet("provider") : ~Truthy(FieldValue(s))
    /\ Truthy(last.args.obj["provider_name_family"])
    /\ last.ret = PyNone

(* C9: the node a composite builder returns carries the edge of a field of its
   suffix set only if the field is truthy. *)
C9_EdgeOnlyIfTruthy ==
    (last.op \in Composite /\ last.ret # PyNone) =>
        \A s \in SuffixSet(last.op) :
            FieldEdge(last.op, last.ret, s) => Truthy(FieldValue(s))

(* address returned a node for a record with a street and no city *)
C9_Witness ==
    /\ last.op = "address"
    /\ last.ret # PyNone
    /\ Truthy(FieldValue("street"))
    /\ ~Truthy(FieldValue("city"))
    /\ FieldEdge("address", last.ret, "street")

(* C10: the node medication() builds carries a drugName edge to a CodedValue
   node, a startDate and an instructions edge, and the call adds the quantity,
   frequency, endDate and provenance edges exactly when all source values of
   the edge are non-empty. *)
C10_MedicationEdges ==
    (last.op = "medication" /\ TruthyObj(last.args.m)) =>
        LET m == last.args.m
            n == last.ret
            both(a, b) == Truthy(a) /\ Truthy(b)
        IN  /\ n = URIRef(uri(m, "medications"))
            /\ <<n, RDF_type, SP("Medication")>> \in g
            /\ \E cv \in Objects(New, n, SP("drugName")) :
                  <<cv, RDF_type, SP("CodedValue")>> \in g
            /\ Literal(m.startDate) \in Objects(g, n, SP("startDate"))
            /\ Literal(m.instructions) \in Objects(g, n, SP("instructions"))
            /\ Objects(New, n, SP("quantity")) # {}
                  <=> both(m.quantity_value, m.quantity_unit)
            /\ Objects(New, n, SP("frequency")) # {}
                  <=> both(m.frequency_value, m.frequency_unit)
            /\ Truthy(m.endDate) => Literal(m.endDate) \in Objects(g, n, SP("endDate"))
            /\ ~Truthy(m.endDate) => Objects(New, n, SP("endDate")) = {}
            /\ Objects(New, n, SP("provenance")) # {}
                  <=> (both(m.provenance_identifier, m.provenance_title)
                          /\ Truthy(m.provenance_system))
            /\ \A cv \in Objects(New, n, SP("provenance")) :
                  <<cv, RDF_type, SP("CodedValue")>> \in g

(* a medication with a quantity, no end date and a provenance identifier without
   a title was built *)
C10_Witness ==
    /\ last.op = "medication"
    /\ TruthyObj(last.args.m)
    /\ ~Truthy(last.args.m.endDate)
    /\ Truthy(last.args.m.quantity_value) /\ Truthy(last.args.m.quantity_unit)
    /\ Truthy(last.args.m.provenance_identifier)
    /\ ~Truthy(last.args.m.provenance_title)
    /\ Objects(g, last.ret, SP("quantity")) # {}

(* the top-level add methods that take their records as arguments *)
AddMethods == {"addMedList", "addFill", "addFillList", "addProblemList"}

(* the call c, a method name and its arguments, made on the builder self *)
Replay(self, c) ==
    CASE c.op = "addMedList" -> addMedList(self, c.args.meds)
      [] c.op = "addFill" ->
            addFill(self, c.args.fill, c.args.medNode, c.args.med_uri_only)
      [] c.op = "addFillList" -> addFillList(self, c.args.fills)
      [] c.op = "addProblemList" -> addProblemList(self, c.args.problems)

(* the term v with the anonymous nodes 1..m renamed by a rotation of k places;
   node 0, the patient anchor, and every URI and literal stay *)
Rotate(v, k, m) ==
    IF v[1] = "BNode" /\ v[3] > 0 THEN BNode(((v[3] - 1 + k) % m) + 1) ELSE v

Renamed(graph, k, m) == {<<Rotate(t[1], k, m), t[2], Rotate(t[3], k, m)>> : t \in graph}

(* a renaming of the anonymous nodes 1..n-1 maps the graph g1 onto the graph g2 *)
SameUpToRenaming(g1, g2, n) ==
    IF n = 1 THEN g1 = g2 ELSE \E k \in 0..(n - 2) : Renamed(g1, k, n - 1) = g2

(* the builder after the last two calls made in the other order on a fresh builder *)
OtherOrder ==
    Replay(Replay(PatientGraph, [op |-> last.op, args |-> last.args]).self, before).self

(* C11: two add methods called on a fresh builder yield the same statement set in
   either order, up to a renaming of the anonymous nodes. *)
C11_OrderIndependent ==
    (calls = 2 /\ last.op \in AddMethods /\ before.op \in AddMethods) =>
        \E other \in {OtherOrder} :
            /\ other.nb = nb
            /\ other.patient = patient
            /\ SameUpToRenaming(g, other.g, nb)

(* addMedList then addFillList were called on non-empty lists, and the other
   order numbers the anonymous nodes differently *)
C11_Witness ==
    /\ calls = 2
    /\ before.op = "addMedList"
    /\ TruthyObj(before.args.meds)
    /\ last.op = "addFillList"
    /\ last.raised = ""
    /\ TruthyObj(last.args.fills)
    /\ gPrev # PatientGraph.g
    /\ g # gPrev
    /\ OtherOrder.g # g

(* C13: addFill on a fill that has a medication adds one medication edge from
   the Fulfillment node, to the URI of fill.medication if med_uri_only and to
   medNode otherwise, which is the node of the fill's medication in both modes
   unless the caller supplied the node of another medication; the fulfillment
   edge from medNode is added exactly when a medNode was supplied; every
   fulfillment edge addMedList or addFillList adds has the matching medication
   edge. *)
C13_FillMedicationLinks ==
    /\ (last.op = "addFill" /\ TruthyObj(last.args.fill.medication)) =>
          LET fill == last.args.fill
              medNode == last.args.medNode
              rfNode == URIRef(uri(fill, "fullfillments"))
              medUri == URIRef(uri(fill.medication, "medications"))
              target == IF last.args.med_uri_only THEN medUri ELSE medNode
          IN  /\ target \in Objects(g, rfNode, SP("medication"))
              /\ Objects(New, rfNode, SP("medication")) \subseteq {target}
              /\ calls = 1 => Cardinality(Objects(g, rfNode, SP("medication"))) = 1
              /\ medNode \in {PyNone, medUri} => target = medUri
              /\ Truthy(medNode) => <<medNode, SP("fulfillment"), rfNode>> \in g
              /\ ~Truthy(medNode) =>
                    ~(\E t \in New : t[2] = SP("fulfillment") /\ t[3] = rfNode)
    /\ last.op \in {"addMedList", "addFillList"} =>
          \A t \in New : t[2] = SP("fulfillment") => <<t[3], SP("medication"), t[1]>> \in g

(* addFill was called on a fill of a medication with no medNode and med_uri_only
   false, and the medication edge of the Fulfillment node points to None *)
C13_Witness ==
    /\ last.op = "addFill"
    /\ TruthyObj(last.args.fill.medication)
    /\ last.args.medNode = PyNone
    /\ ~last.args.med_uri_only
    /\ PyNone \in Objects(g, URIRef(uri(last.args.fill, "fullfillments")), SP("medication"))

====
